---------------------------- MODULE Spec2Model ----------------------------
(***************************************************************************)
(* A model of mongonet's server.go: the lifecycle of Server.Run (startup,  *)
(* the accept loop, the deferred clean-up), Server.Close, the receivers of *)
(* InitChannel, Session.Run, and the reply framing of RespondToCommand and *)
(* RespondWithError.                                                       *)
(*                                                                         *)
(* Go channels are modelled by what they hold: a buffered channel is a     *)
(* sequence with a capacity, a channel that is only ever closed is a flag  *)
(* or a counter of closes.  A deferred call is an entry of a stack that    *)
(* the function unwinds, last registered first, once it returns.           *)
(***************************************************************************)
EXTENDS Naturals, Sequences, FiniteSets

\* ------------------------------------------------------------------ bounds

\* Connections the environment offers to the listener.
MaxConns == 1
\* Certificate/key pairs a configuration lists.
MaxKeys == 1
\* Receives that clients perform on the channel InitChannel returns.
MaxRecv == 2
\* Frames one session writes to its connection.
MaxFrames == 1
\* The longest argument list of RespondToCommandMakeBSON.
MaxArgs == 4

\* ---------------------------------------------------------------- constants

\* NewServer: make(chan error, 1)
InitChanCap == 1
\* make(chan accepted): the handoff without a buffer.
IncomingCapUnbuffered == Len(<< >>)
\* Server.Run: make(chan accepted, 1)
IncomingCap == 1

\* An error value: its message and the message of the error it wraps.
Err(msg, cause) == [msg |-> msg, cause |-> cause]

\* The nil error, and the nil connection of a failed accept.
NilErr == Err("nil", "none")
NoConn == 0

\* No value yet: Run has not returned, nothing is about to be sent.
NoValue == Err("no value", "none")

ErrListenCause == Err("listen error", "none")
ErrAccept == Err("accept error", "none")

ErrNoSSLKeys == Err("no ssl keys configured", "none")
ErrLoadKeyPair == Err("cannot LoadX509KeyPair", "load error")
ErrListen == Err("cannot start listening in proxy", ErrListenCause.msg)

StartupErrors == {ErrNoSSLKeys, ErrLoadKeyPair, ErrListen}

ConnIds == 1..MaxConns

\* Virtual-host names a TLS client may declare, as sequences of characters.
ServerNames == {<< >>, <<"h">>, <<"h", ".">>}

VARIABLES
    config,      \* ServerConfig: UseSSL and len(SSLKeys)
    runPc,       \* where Server.Run is
    runResult,   \* what Server.Run returned (NoValue while it has not)
    sendVal,     \* the value Run is about to send on initChan
    loadIdx,     \* index of the range loop over SSLKeys
    tlsConfig,   \* whether tlsConfig was built
    listenErr,   \* Run's local err, assigned by net.Listen
    runDefers,   \* Run's stack of deferred calls
    initBuf,     \* initChan's buffer
    initClosed,  \* initChan closed
    initSent,    \* every value sent on initChan, in order
    killClosed,  \* killChan closed
    doneCloses,  \* how often doneChan was closed
    Addr,        \* Server.Addr
    addrWrites,  \* how often Server.Addr was assigned
    lnState,     \* the listener: "none", "open", "closed"
    accepting,   \* accept goroutines blocked in ln.Accept()
    sending,     \* results of accept goroutines that still have to send
    incoming,    \* incomingConnections' buffer
    nextConn,    \* the next connection the environment offers
    curEvent,    \* connectionEvent of the current loop iteration
    sess,        \* the Session of each connection
    closePc,     \* where Server.Close is
    received,    \* what the receives on InitChannel() yielded, in order
    last,        \* the last call of a respond method and its outcome
    sent         \* the frames handed to SendMessage on the session's conn

serverVars == <<config, runPc, runResult, sendVal, loadIdx, tlsConfig, listenErr,
                runDefers, initBuf, initClosed, initSent, killClosed, doneCloses,
                Addr, addrWrites, lnState, accepting, sending, incoming, nextConn,
                curEvent, sess, closePc, received>>

respondVars == <<last, sent>>

vars == <<serverVars, respondVars>>


\* ------------------------------------------------------------------ helpers

Push(stack, f) == <<f>> \o stack

\* strings.TrimSuffix
TrimSuffix(s, suffix) ==
    IF Len(s) >= Len(suffix) /\ SubSeq(s, Len(s) - Len(suffix) + 1, Len(s)) = suffix
    THEN SubSeq(s, 1, Len(s) - Len(suffix))
    ELSE s

\* A send on a channel blocks while its buffer is full.
CanSend(buf, cap) == Len(buf) < cap

\* --------------------------------------------------------------- NewServer

\* sessions counts the Session values Run created for the connection,
\* handshake is the outcome of c.Handshake() and declared the server name of
\* the connection state after it.
NoSession ==
    [pc |-> "none", tls |-> FALSE, conn |-> NoConn, sessions |-> 0,
     handshake |-> "none", declared |-> << >>,
     SSLServerName |-> << >>, nameWrites |-> 0, defers |-> << >>,
     connCloses |-> 0, factoryCalls |-> 0, worker |-> FALSE,
     loopCalls |-> 0, loopReturns |-> 0, workerCloses |-> 0]


\* No respond method has been called yet.
NoCall == [fn |-> "none"]

\* The configurations: the key pairs are read only when UseSSL is set.
Configs ==
    {cfg \in [UseSSL : BOOLEAN, nKeys : 0..MaxKeys] : ~cfg.UseSSL => cfg.nKeys = 0}

\* The state NewServer leaves, for one configuration.
NewServer(cfg) ==
    /\ config = cfg
    /\ runPc = "idle"
    /\ runResult = NoValue
    /\ sendVal = NoValue
    /\ loadIdx = 0
    /\ tlsConfig = FALSE
    /\ listenErr = NilErr
    /\ runDefers = << >>
    /\ initBuf = << >>
    /\ initClosed = FALSE
    /\ initSent = << >>
    /\ killClosed = FALSE
    /\ doneCloses = 0
    /\ Addr = "none"
    /\ addrWrites = 0
    /\ lnState = "none"
    /\ accepting = 0
    /\ sending = << >>
    /\ incoming = << >>
    /\ nextConn = 1
    /\ curEvent = [conn |-> NoConn, err |-> NilErr]
    /\ sess = [c \in ConnIds |-> NoSession]
    /\ closePc = "idle"
    /\ received = << >>

Init ==
    /\ \E cfg \in Configs : NewServer(cfg)
    /\ last = NoCall
    /\ sent = << >>

\* -------------------------------------------------------------- Server.Run

\* Run is entered: defer close(s.initChan).
RunStart ==
    /\ runPc = "idle"
    /\ runDefers' = Push(runDefers, "close(initChan)")
    /\ runPc' = "checkSSL"
    /\ UNCHANGED <<config, runResult, sendVal, loadIdx, tlsConfig, listenErr,
                   initBuf, initClosed, initSent, killClosed, doneCloses, Addr,
                   addrWrites, lnState, accepting, sending, incoming, nextConn,
                   curEvent, sess, closePc, received, respondVars>>

\* if s.config.UseSSL { if len(s.config.SSLKeys) == 0 { ... } }
RunCheckSSL ==
    /\ runPc = "checkSSL"
    /\ IF ~config.UseSSL
       THEN /\ runPc' = "listen"
            /\ UNCHANGED sendVal
       ELSE IF config.nKeys = 0
            THEN /\ sendVal' = ErrNoSSLKeys
                 /\ runPc' = "sendInit"
            ELSE /\ runPc' = "loadKeys"
                 /\ UNCHANGED sendVal
    /\ UNCHANGED <<config, runResult, loadIdx, tlsConfig, listenErr, runDefers,
                   initBuf, initClosed, initSent, killClosed, doneCloses, Addr,
                   addrWrites, lnState, accepting, sending, incoming, nextConn,
                   curEvent, sess, closePc, received, respondVars>>

\* One iteration of the range loop: tls.LoadX509KeyPair succeeds or fails.
RunLoadKey ==
    /\ runPc = "loadKeys"
    /\ loadIdx < config.nKeys
    /\ \E loaded \in BOOLEAN :
          IF loaded
          THEN /\ loadIdx' = loadIdx + 1
               /\ UNCHANGED <<sendVal, runPc>>
          ELSE /\ sendVal' = ErrLoadKeyPair
               /\ runPc' = "sendInit"
               /\ UNCHANGED loadIdx
    /\ UNCHANGED <<config, runResult, tlsConfig, listenErr, runDefers,
                   initBuf, initClosed, initSent, killClosed, doneCloses, Addr,
                   addrWrites, lnState, accepting, sending, incoming, nextConn,
                   curEvent, sess, closePc, received, respondVars>>

\* After the loop: tlsConfig = &tls.Config{...}, MinVersion, BuildNameToCertificate.
RunBuildTLS ==
    /\ runPc = "loadKeys"
    /\ loadIdx = config.nKeys
    /\ tlsConfig' = TRUE
    /\ runPc' = "listen"
    /\ UNCHANGED <<config, runResult, sendVal, loadIdx, listenErr, runDefers,
                   initBuf, initClosed, initSent, killClosed, doneCloses, Addr,
                   addrWrites, lnState, accepting, sending, incoming, nextConn,
                   curEvent, sess, closePc, received, respondVars>>

\* RunListen with the failure not reported: Run returns the error of
\* net.Listen without sending it on initChan.
RunListenNoReport ==
    /\ runPc = "listen"
    /\ \E ok \in BOOLEAN :
          IF ok
          THEN /\ lnState' = "open"
               /\ listenErr' = NilErr
               /\ runPc' = "setAddr"
               /\ UNCHANGED runResult
          ELSE /\ listenErr' = ErrListenCause
               /\ runResult' = ErrListen
               /\ runPc' = "unwind"
               /\ UNCHANGED lnState
    /\ UNCHANGED <<config, sendVal, loadIdx, tlsConfig, runDefers,
                   initBuf, initClosed, initSent, killClosed, doneCloses, Addr,
                   addrWrites, accepting, sending, incoming, nextConn,
                   curEvent, sess, closePc, received, respondVars>>

\* RunListen with nil sent on initChan whatever net.Listen returned.
RunListenReportsNil ==
    /\ runPc = "listen"
    /\ \E ok \in BOOLEAN :
          IF ok
          THEN /\ lnState' = "open"
               /\ listenErr' = NilErr
               /\ runPc' = "setAddr"
               /\ UNCHANGED sendVal
          ELSE /\ listenErr' = ErrListenCause
               /\ sendVal' = NilErr
               /\ runPc' = "sendInit"
               /\ UNCHANGED lnState
    /\ UNCHANGED <<config, runResult, loadIdx, tlsConfig, runDefers,
                   initBuf, initClosed, initSent, killClosed, doneCloses, Addr,
                   addrWrites, accepting, sending, incoming, nextConn,
                   curEvent, sess, closePc, received, respondVars>>

\* ln, err := net.Listen("tcp", bindTo)
RunListen ==
    /\ runPc = "listen"
    /\ \E ok \in BOOLEAN :
          IF ok
          THEN /\ lnState' = "open"
               /\ listenErr' = NilErr
               /\ runPc' = "setAddr"
               /\ UNCHANGED sendVal
          ELSE /\ listenErr' = ErrListenCause
               /\ sendVal' = ErrListen
               /\ runPc' = "sendInit"
               /\ UNCHANGED lnState
    /\ UNCHANGED <<config, runResult, loadIdx, tlsConfig, runDefers,
                   initBuf, initClosed, initSent, killClosed, doneCloses, Addr,
                   addrWrites, accepting, sending, incoming, nextConn,
                   curEvent, sess, closePc, received, respondVars>>

\* RunSetAddr with the assignment of s.Addr left out.
RunSetAddrSkipped ==
    /\ runPc = "setAddr"
    /\ sendVal' = NilErr
    /\ runPc' = "sendInit"
    /\ UNCHANGED <<config, runResult, loadIdx, tlsConfig, listenErr, runDefers,
                   initBuf, initClosed, initSent, killClosed, doneCloses, Addr,
                   addrWrites, lnState, accepting, sending, incoming, nextConn,
                   curEvent, sess, closePc, received, respondVars>>

\* s.Addr = ln.Addr()
RunSetAddr ==
    /\ runPc = "setAddr"
    /\ Addr' = "resolved"
    /\ addrWrites' = addrWrites + 1
    /\ sendVal' = NilErr
    /\ runPc' = "sendInit"
    /\ UNCHANGED <<config, runResult, loadIdx, tlsConfig, listenErr, runDefers,
                   initBuf, initClosed, initSent, killClosed, doneCloses,
                   lnState, accepting, sending, incoming, nextConn,
                   curEvent, sess, closePc, received, respondVars>>

\* s.initChan <- v; after an error, return it.
RunSendInit ==
    /\ runPc = "sendInit"
    /\ CanSend(initBuf, InitChanCap)
    /\ initBuf' = Append(initBuf, sendVal)
    /\ initSent' = Append(initSent, sendVal)
    /\ IF sendVal = NilErr
       THEN /\ runPc' = "deferDone"
            /\ UNCHANGED runResult
       ELSE /\ runResult' = sendVal
            /\ runPc' = "unwind"
    /\ UNCHANGED <<config, sendVal, loadIdx, tlsConfig, listenErr, runDefers,
                   initClosed, killClosed, doneCloses, Addr,
                   addrWrites, lnState, accepting, sending, incoming, nextConn,
                   curEvent, sess, closePc, received, respondVars>>

\* RunDeferDone with the two defer statements in the other order.
RunDeferDoneSwapped ==
    /\ runPc = "deferDone"
    /\ runDefers' = Push(Push(runDefers, "ln.Close()"), "close(doneChan)")
    /\ incoming' = << >>
    /\ runPc' = "loop"
    /\ UNCHANGED <<config, runResult, sendVal, loadIdx, tlsConfig, listenErr,
                   initBuf, initClosed, initSent, killClosed, doneCloses, Addr,
                   addrWrites, lnState, accepting, sending, nextConn,
                   curEvent, sess, closePc, received, respondVars>>

\* defer close(s.doneChan); defer ln.Close(); incomingConnections := make(...)
RunDeferDone ==
    /\ runPc = "deferDone"
    /\ runDefers' = Push(Push(runDefers, "close(doneChan)"), "ln.Close()")
    /\ incoming' = << >>
    /\ runPc' = "loop"
    /\ UNCHANGED <<config, runResult, sendVal, loadIdx, tlsConfig, listenErr,
                   initBuf, initClosed, initSent, killClosed, doneCloses, Addr,
                   addrWrites, lnState, accepting, sending, nextConn,
                   curEvent, sess, closePc, received, respondVars>>

\* go func() { conn, err := ln.Accept(); incomingConnections <- ... }()
RunSpawnAccept ==
    /\ runPc = "loop"
    /\ accepting' = accepting + 1
    /\ runPc' = "select"
    /\ UNCHANGED <<config, runResult, sendVal, loadIdx, tlsConfig, listenErr,
                   runDefers, initBuf, initClosed, initSent, killClosed,
                   doneCloses, Addr, addrWrites, lnState, sending, incoming,
                   nextConn, curEvent, sess, closePc, received, respondVars>>

\* RunSelectKill with the loop continuing instead of returning.
RunSelectKillIgnored ==
    /\ runPc = "select"
    /\ killClosed
    /\ runPc' = "loop"
    /\ UNCHANGED <<config, runResult, sendVal, loadIdx, tlsConfig, listenErr,
                   runDefers, initBuf, initClosed, initSent, killClosed,
                   doneCloses, Addr, addrWrites, lnState, accepting, sending,
                   incoming, nextConn, curEvent, sess, closePc, received,
                   respondVars>>

\* select, case <-s.killChan: return nil
RunSelectKill ==
    /\ runPc = "select"
    /\ killClosed
    /\ runResult' = NilErr
    /\ runPc' = "unwind"
    /\ UNCHANGED <<config, sendVal, loadIdx, tlsConfig, listenErr,
                   runDefers, initBuf, initClosed, initSent, killClosed,
                   doneCloses, Addr, addrWrites, lnState, accepting, sending,
                   incoming, nextConn, curEvent, sess, closePc, received,
                   respondVars>>

\* The error Run returns for a failed accept: it formats Run's err, the
\* variable net.Listen assigned, not connectionEvent.err.
AcceptFailure(event) == Err("could not accept in proxy", listenErr.msg)

\* select, case connectionEvent := <-incomingConnections
RunSelectConn ==
    /\ runPc = "select"
    /\ incoming # << >>
    /\ curEvent' = Head(incoming)
    /\ incoming' = Tail(incoming)
    /\ IF Head(incoming).err # NilErr
       THEN /\ runResult' = AcceptFailure(Head(incoming))
            /\ runPc' = "unwind"
       ELSE /\ runPc' = "handle"
            /\ UNCHANGED runResult
    /\ UNCHANGED <<config, sendVal, loadIdx, tlsConfig, listenErr,
                   runDefers, initBuf, initClosed, initSent, killClosed,
                   doneCloses, Addr, addrWrites, lnState, accepting, sending,
                   nextConn, sess, closePc, received, respondVars>>

\* RunHandle without go c.Run(conn): the connection gets no Session.
RunHandleDrops ==
    /\ runPc = "handle"
    /\ runPc' = "loop"
    /\ UNCHANGED <<config, runResult, sendVal, loadIdx, tlsConfig, listenErr,
                   runDefers, initBuf, initClosed, initSent, killClosed,
                   doneCloses, Addr, addrWrites, lnState, accepting, sending,
                   incoming, nextConn, curEvent, sess, closePc, received,
                   respondVars>>

\* The accepted connection is wrapped by tls.Server when UseSSL is set, and
\* c := &Session{...}; go c.Run(conn).  (The keep-alive options set before
\* that are options of the socket; nothing of the program reads them.)
RunHandle ==
    /\ runPc = "handle"
    /\ sess' = [sess EXCEPT ![curEvent.conn] =
                   [NoSession EXCEPT !.pc = "start",
                                     !.sessions = sess[curEvent.conn].sessions + 1,
                                     !.conn = curEvent.conn,
                                     !.tls = config.UseSSL]]
    /\ runPc' = "loop"
    /\ UNCHANGED <<config, runResult, sendVal, loadIdx, tlsConfig, listenErr,
                   runDefers, initBuf, initClosed, initSent, killClosed,
                   doneCloses, Addr, addrWrites, lnState, accepting, sending,
                   incoming, nextConn, curEvent, closePc, received,
                   respondVars>>

\* RunUnwind closing the connections of the sessions still running ("TODO:
\* close down all active connections before returning").
RunUnwindClosesSessions ==
    /\ runPc = "unwind"
    /\ IF runDefers = << >>
       THEN /\ runPc' = "returned"
            /\ sess' = [c \in ConnIds |->
                           IF sess[c].pc \in {"none", "done"}
                           THEN sess[c]
                           ELSE [sess[c] EXCEPT !.connCloses = @ + 1]]
            /\ UNCHANGED <<runDefers, lnState, doneCloses, initClosed>>
       ELSE /\ runDefers' = Tail(runDefers)
            /\ lnState' = IF Head(runDefers) = "ln.Close()" THEN "closed" ELSE lnState
            /\ doneCloses' = IF Head(runDefers) = "close(doneChan)"
                             THEN doneCloses + 1 ELSE doneCloses
            /\ initClosed' = (initClosed \/ Head(runDefers) = "close(initChan)")
            /\ UNCHANGED <<runPc, sess>>
    /\ UNCHANGED <<config, runResult, sendVal, loadIdx, tlsConfig, listenErr,
                   initBuf, initSent, killClosed, Addr, addrWrites,
                   accepting, sending, incoming, nextConn, curEvent,
                   closePc, received, respondVars>>

\* Run returns: its deferred calls run, the last registered first.
RunUnwind ==
    /\ runPc = "unwind"
    /\ IF runDefers = << >>
       THEN /\ runPc' = "returned"
            /\ UNCHANGED <<runDefers, lnState, doneCloses, initClosed>>
       ELSE /\ runDefers' = Tail(runDefers)
            /\ lnState' = IF Head(runDefers) = "ln.Close()" THEN "closed" ELSE lnState
            /\ doneCloses' = IF Head(runDefers) = "close(doneChan)"
                             THEN doneCloses + 1 ELSE doneCloses
            /\ initClosed' = (initClosed \/ Head(runDefers) = "close(initChan)")
            /\ UNCHANGED runPc
    /\ UNCHANGED <<config, runResult, sendVal, loadIdx, tlsConfig, listenErr,
                   initBuf, initSent, killClosed, Addr, addrWrites,
                   accepting, sending, incoming, nextConn, curEvent, sess,
                   closePc, received, respondVars>>

\* ------------------------------------------------- the accept goroutine

\* ln.Accept() returns a connection of the environment.
AcceptConn ==
    /\ accepting > 0
    /\ lnState = "open"
    /\ nextConn <= MaxConns
    /\ accepting' = accepting - 1
    /\ sending' = Append(sending, [conn |-> nextConn, err |-> NilErr])
    /\ nextConn' = nextConn + 1
    /\ UNCHANGED <<config, runPc, runResult, sendVal, loadIdx, tlsConfig,
                   listenErr, runDefers, initBuf, initClosed, initSent,
                   killClosed, doneCloses, Addr, addrWrites, lnState, incoming,
                   curEvent, sess, closePc, received, respondVars>>

\* ln.Accept() returns an error: at any time, and always once ln is closed.
AcceptError ==
    /\ accepting > 0
    /\ accepting' = accepting - 1
    /\ sending' = Append(sending, [conn |-> NoConn, err |-> ErrAccept])
    /\ UNCHANGED <<config, runPc, runResult, sendVal, loadIdx, tlsConfig,
                   listenErr, runDefers, initBuf, initClosed, initSent,
                   killClosed, doneCloses, Addr, addrWrites, lnState, incoming,
                   nextConn, curEvent, sess, closePc, received, respondVars>>

\* incomingConnections <- accepted{conn, err}
AcceptSend ==
    /\ sending # << >>
    /\ CanSend(incoming, IncomingCap)
    /\ incoming' = Append(incoming, Head(sending))
    /\ sending' = Tail(sending)
    /\ UNCHANGED <<config, runPc, runResult, sendVal, loadIdx, tlsConfig,
                   listenErr, runDefers, initBuf, initClosed, initSent,
                   killClosed, doneCloses, Addr, addrWrites, lnState, accepting,
                   nextConn, curEvent, sess, closePc, received, respondVars>>

\* ------------------------------------------------------------ Server.Close

\* close(s.killChan)
CloseKill ==
    /\ closePc = "idle"
    /\ killClosed' = TRUE
    /\ closePc' = "waitDone"
    /\ UNCHANGED <<config, runPc, runResult, sendVal, loadIdx, tlsConfig,
                   listenErr, runDefers, initBuf, initClosed, initSent,
                   doneCloses, Addr, addrWrites, lnState, accepting, sending,
                   incoming, nextConn, curEvent, sess, received, respondVars>>

\* <-s.doneChan: a receive on a channel nobody sends on ends once it is closed.
CloseWaitDone ==
    /\ closePc = "waitDone"
    /\ doneCloses > 0
    /\ closePc' = "returned"
    /\ UNCHANGED <<config, runPc, runResult, sendVal, loadIdx, tlsConfig,
                   listenErr, runDefers, initBuf, initClosed, initSent,
                   killClosed, doneCloses, Addr, addrWrites, lnState, accepting,
                   sending, incoming, nextConn, curEvent, sess, received,
                   respondVars>>

\* ------------------------------------------------------ Server.InitChannel

\* A client's receive on InitChannel(): the buffered value, or, from the
\* closed and empty channel, the zero value of error (nil) with ok = false.
InitChannelRecv ==
    /\ Len(received) < MaxRecv
    /\ \/ /\ initBuf # << >>
          /\ received' = Append(received, [v |-> Head(initBuf), ok |-> TRUE])
          /\ initBuf' = Tail(initBuf)
       \/ /\ initBuf = << >>
          /\ initClosed
          /\ received' = Append(received, [v |-> NilErr, ok |-> FALSE])
          /\ UNCHANGED initBuf
    /\ UNCHANGED <<config, runPc, runResult, sendVal, loadIdx, tlsConfig,
                   listenErr, runDefers, initClosed, initSent, killClosed,
                   doneCloses, Addr, addrWrites, lnState, accepting, sending,
                   incoming, nextConn, curEvent, sess, closePc, respondVars>>

\* ------------------------------------------------------------- Session.Run

SessionUnchanged ==
    UNCHANGED <<config, runPc, runResult, sendVal, loadIdx, tlsConfig,
                listenErr, runDefers, initBuf, initClosed, initSent, killClosed,
                doneCloses, Addr, addrWrites, lnState, accepting, sending,
                incoming, nextConn, curEvent, closePc, received, respondVars>>

\* SessionStart with the *tls.Conn case of the type switch left out.
SessionStartNoHandshake(c) ==
    /\ sess[c].pc = "start"
    /\ sess' = [sess EXCEPT ![c].defers = Push(@, "conn.Close()"),
                            ![c].pc = "create"]
    /\ SessionUnchanged

\* defer conn.Close(); s.conn = conn; switch c := conn.(type)
SessionStart(c) ==
    /\ sess[c].pc = "start"
    /\ sess' = [sess EXCEPT ![c].defers = Push(@, "conn.Close()"),
                            ![c].pc = IF sess[c].tls THEN "handshake" ELSE "create"]
    /\ SessionUnchanged

\* SessionHandshake with conn.Close() not deferred on the failure path.
SessionHandshakeLeaks(c) ==
    /\ sess[c].pc = "handshake"
    /\ \/ \E name \in ServerNames :
             sess' = [sess EXCEPT ![c].handshake = "ok",
                                  ![c].declared = name,
                                  ![c].SSLServerName = TrimSuffix(name, <<".">>),
                                  ![c].nameWrites = @ + 1,
                                  ![c].pc = "create"]
       \/ sess' = [sess EXCEPT ![c].handshake = "failed", ![c].pc = "done"]
    /\ SessionUnchanged

\* err = c.Handshake(): on success the declared server name is captured.
SessionHandshake(c) ==
    /\ sess[c].pc = "handshake"
    /\ \/ \E name \in ServerNames :
             sess' = [sess EXCEPT ![c].handshake = "ok",
                                  ![c].declared = name,
                                  ![c].SSLServerName = TrimSuffix(name, <<".">>),
                                  ![c].nameWrites = @ + 1,
                                  ![c].pc = "create"]
       \/ sess' = [sess EXCEPT ![c].handshake = "failed", ![c].pc = "unwind"]
    /\ SessionUnchanged

\* SessionCreateWorker with defer worker.Close() left out.
SessionCreateWorkerNoDefer(c) ==
    /\ sess[c].pc = "create"
    /\ \/ sess' = [sess EXCEPT ![c].factoryCalls = @ + 1,
                               ![c].worker = TRUE,
                               ![c].defers = Push(@, "log socket closed"),
                               ![c].pc = "callLoop"]
       \/ sess' = [sess EXCEPT ![c].factoryCalls = @ + 1,
                               ![c].defers = Push(@, "log socket closed"),
                               ![c].pc = "unwind"]
    /\ SessionUnchanged

\* defer Logf("socket closed"); worker, err := CreateWorker(s);
\* on success defer worker.Close()
SessionCreateWorker(c) ==
    /\ sess[c].pc = "create"
    /\ \/ sess' = [sess EXCEPT ![c].factoryCalls = @ + 1,
                               ![c].worker = TRUE,
                               ![c].defers = Push(Push(@, "log socket closed"),
                                                  "worker.Close()"),
                               ![c].pc = "callLoop"]
       \/ sess' = [sess EXCEPT ![c].factoryCalls = @ + 1,
                               ![c].defers = Push(@, "log socket closed"),
                               ![c].pc = "unwind"]
    /\ SessionUnchanged

\* worker.DoLoopTemp() is called
SessionCallLoop(c) ==
    /\ sess[c].pc = "callLoop"
    /\ sess' = [sess EXCEPT ![c].loopCalls = @ + 1, ![c].pc = "inLoop"]
    /\ SessionUnchanged

\* worker.DoLoopTemp() returns
SessionLoopReturns(c) ==
    /\ sess[c].pc = "inLoop"
    /\ sess' = [sess EXCEPT ![c].loopReturns = @ + 1, ![c].pc = "unwind"]
    /\ SessionUnchanged

\* Session.Run returns: its deferred calls run, the last registered first.
SessionUnwind(c) ==
    /\ sess[c].pc = "unwind"
    /\ IF sess[c].defers = << >>
       THEN sess' = [sess EXCEPT ![c].pc = "done"]
       ELSE sess' = [sess EXCEPT
               ![c].defers = Tail(@),
               ![c].connCloses =
                   IF Head(sess[c].defers) = "conn.Close()" THEN @ + 1 ELSE @,
               ![c].workerCloses =
                   IF Head(sess[c].defers) = "worker.Close()" THEN @ + 1 ELSE @]
    /\ SessionUnchanged

\* ------------------------------------------------------------ the program

RunStep ==
    \/ RunStart
    \/ RunCheckSSL
    \/ RunLoadKey
    \/ RunBuildTLS
    \/ RunListen
    \/ RunSetAddr
    \/ RunSendInit
    \/ RunDeferDone
    \/ RunSpawnAccept
    \/ RunSelectKill
    \/ RunSelectConn
    \/ RunHandle
    \/ RunUnwind

Next ==
    \/ RunStep
    \/ AcceptConn
    \/ AcceptError
    \/ AcceptSend
    \/ CloseKill
    \/ CloseWaitDone
    \/ InitChannelRecv
    \/ \E c \in ConnIds : SessionStart(c)
    \/ \E c \in ConnIds : SessionHandshake(c)
    \/ \E c \in ConnIds : SessionCreateWorker(c)
    \/ \E c \in ConnIds : SessionCallLoop(c)
    \/ \E c \in ConnIds : SessionLoopReturns(c)
    \/ \E c \in ConnIds : SessionUnwind(c)

Spec == Init /\ [][Next]_vars

\* What the Go scheduler guarantees: a goroutine that can take a step takes it.
\* Whether Run and Close are called, what the network delivers and when a
\* Worker's loop ends are the caller's and the environment's choice.
FairSpec ==
    /\ Spec
    /\ WF_vars(RunStep /\ runPc # "idle")
    /\ WF_vars(AcceptSend)
    /\ WF_vars(CloseWaitDone)

\* ------------------------------------------------------ the respond methods

\* Opcodes of request messages, by name.
OpCodes ==
    {"OP_REPLY", "OP_UPDATE", "OP_INSERT", "OP_QUERY", "OP_GET_MORE", "OP_DELETE",
     "OP_KILL_CURSORS", "OP_COMMAND", "OP_COMMAND_REPLY", "OP_MSG"}

RequestIDs == {7, 9}

\* clientMessage, as far as the respond methods read it: its header.
Messages == [OpCode : OpCodes, RequestID : RequestIDs]

\* A value of a document element.  A value of kind "chan" has no encoding.
Val(kind, v) == [kind |-> kind, v |-> v]

\* bson.DocElem
DocElem(name, value) == [Name |-> name, Value |-> value]

ErrUnknownOpcode == Err("unknown opcode", "none")
ErrMarshal == Err("cannot marshal", "none")
ErrWrite == Err("write error", "none")

\* What SendMessage may return.
SendResults == {NilErr, ErrWrite}

\* SimpleBSONConvert: the encoded document, or the encoder's error for a
\* value it cannot encode.
SimpleBSONConvert(d) ==
    IF \E i \in DOMAIN d : d[i].Value.kind = "chan"
    THEN [doc |-> [Size |-> 0, BSON |-> << >>], err |-> ErrMarshal]
    ELSE [doc |-> [Size |-> Len(d), BSON |-> d], err |-> NilErr]

SimpleBSONEmpty == [Size |-> 0, BSON |-> << >>]

\* The documents a Worker passes to RespondToCommand.
Docs ==
    {SimpleBSONConvert(<<DocElem("ok", Val("int", "1"))>>).doc,
     SimpleBSONConvert(<<DocElem("n", Val("int", "3")), DocElem("ok", Val("int", "1"))>>).doc}

\* The errors a Worker passes to RespondWithError: nil, a plain error, and
\* MongoErrors, whose ToBSON() gives the document.
RespondErrors ==
    {[kind |-> "nil", msg |-> "nil", doc |-> << >>],
     [kind |-> "plain", msg |-> "boom", doc |-> << >>],
     [kind |-> "MongoError", msg |-> "not master",
      doc |-> <<DocElem("ok", Val("int", "0")), DocElem("code", Val("int", "10107"))>>],
     [kind |-> "MongoError", msg |-> "bad value",
      doc |-> <<DocElem("ok", Val("int", "0")), DocElem("detail", Val("chan", "c"))>>]}

NoRespondError == [kind |-> "none", msg |-> "none", doc |-> << >>]

\* The header with the request's id as the frame's own id.
MessageHeaderSwapped(msg, opcode) ==
    [Size |-> 0, RequestID |-> msg.RequestID, ResponseTo |-> 17, OpCode |-> opcode]

\* MessageHeader{0, 17, clientMessage.Header().RequestID, opcode}
MessageHeader(msg, opcode) ==
    [Size |-> 0, RequestID |-> 17, ResponseTo |-> msg.RequestID, OpCode |-> opcode]

ReplyMessage(msg, doc) ==
    [kind |-> "ReplyMessage", Header |-> MessageHeader(msg, "OP_REPLY"),
     Flags |-> 0, CursorId |-> 0, StartingFrom |-> 0, NumberReturned |-> 1,
     Docs |-> <<doc>>]

CommandReplyMessage(msg, doc) ==
    [kind |-> "CommandReplyMessage", Header |-> MessageHeader(msg, "OP_COMMAND_REPLY"),
     CommandReply |-> doc, Metadata |-> SimpleBSONEmpty, OutputDocs |-> << >>]

MessageMessage(msg, doc) ==
    [kind |-> "MessageMessage", Header |-> MessageHeader(msg, "OP_MSG"),
     FlagBits |-> 0, Sections |-> <<[kind |-> "BodySection", Bson |-> doc]>>]

\* return SendMessage(rm, s.conn)
Sends(rm, sendResult) == [ret |-> sendResult, frames |-> <<rm>>]

\* A return without a SendMessage call.
Returns(err) == [ret |-> err, frames |-> << >>]

\* The case lists of RespondToCommand's switch.
ToCommandReplyOps == {"OP_QUERY"}
ToCommandWriteOps == {"OP_INSERT", "OP_UPDATE", "OP_DELETE"}
\* The default case returning nil.
ToCommandDefaultNil == Returns(NilErr)
ToCommandDefault == Returns(ErrUnknownOpcode)

RespondToCommand(msg, doc, sendResult) ==
    CASE msg.OpCode \in ToCommandReplyOps -> Sends(ReplyMessage(msg, doc), sendResult)
      [] msg.OpCode \in ToCommandWriteOps -> Returns(NilErr)
      [] msg.OpCode = "OP_COMMAND" -> Sends(CommandReplyMessage(msg, doc), sendResult)
      [] msg.OpCode = "OP_MSG" -> Sends(MessageMessage(msg, doc), sendResult)
      [] OTHER -> ToCommandDefault

\* The document of a plain error built for every error.
ErrorBSONPlain(err) ==
    <<DocElem("ok", Val("int", "0")), DocElem("errmsg", Val("string", err.msg))>>

\* The document RespondWithError builds from the error.
ErrorBSON(err) ==
    IF err.kind = "nil"
    THEN <<DocElem("ok", Val("int", "1"))>>
    ELSE IF err.kind = "MongoError"
         THEN err.doc
         ELSE <<DocElem("ok", Val("int", "0")), DocElem("errmsg", Val("string", err.msg))>>

\* The case lists of RespondWithError's switch.
WithErrorReplyOps == {"OP_QUERY", "OP_GET_MORE"}
\* The case list without OP_DELETE.
WithErrorWriteOpsNoDelete == {"OP_INSERT", "OP_UPDATE"}
WithErrorWriteOps == {"OP_INSERT", "OP_UPDATE", "OP_DELETE"}
WithErrorDefault == Returns(ErrUnknownOpcode)

RespondWithError(msg, err, sendResult) ==
    LET conv == SimpleBSONConvert(ErrorBSON(err))
        doc == conv.doc
    IN  IF conv.err # NilErr
        THEN Returns(conv.err)
        ELSE CASE msg.OpCode \in WithErrorReplyOps -> Sends(ReplyMessage(msg, doc), sendResult)
               [] msg.OpCode \in WithErrorWriteOps -> Returns(NilErr)
               [] msg.OpCode = "OP_COMMAND" -> Sends(CommandReplyMessage(msg, doc), sendResult)
               [] msg.OpCode = "OP_MSG" -> Sends(MessageMessage(msg, doc), sendResult)
               [] OTHER -> WithErrorDefault

\* A Worker calls s.RespondToCommand(clientMessage, doc).
CallRespondToCommand ==
    /\ Len(sent) < MaxFrames
    /\ \E msg \in Messages, doc \in Docs, sendResult \in SendResults :
          LET r == RespondToCommand(msg, doc, sendResult)
          IN  /\ last' = [fn |-> "RespondToCommand", msg |-> msg, doc |-> doc,
                          err |-> NoRespondError, convErr |-> NilErr,
                          sendResult |-> sendResult, ret |-> r.ret, frames |-> r.frames]
              /\ sent' = sent \o r.frames
    /\ UNCHANGED serverVars

\* A Worker calls s.RespondWithError(clientMessage, err).
CallRespondWithError ==
    /\ Len(sent) < MaxFrames
    /\ \E msg \in Messages, err \in RespondErrors, sendResult \in SendResults :
          LET r == RespondWithError(msg, err, sendResult)
              conv == SimpleBSONConvert(ErrorBSON(err))
          IN  /\ last' = [fn |-> "RespondWithError", msg |-> msg, doc |-> conv.doc,
                          err |-> err, convErr |-> conv.err,
                          sendResult |-> sendResult, ret |-> r.ret, frames |-> r.frames]
              /\ sent' = sent \o r.frames
    /\ UNCHANGED serverVars

\* A session of a server without TLS, whose Worker calls the respond methods.
RespondInit ==
    /\ NewServer([UseSSL |-> FALSE, nKeys |-> 0])
    /\ last = NoCall
    /\ sent = << >>

RespondNext ==
    \/ CallRespondToCommand
    \/ CallRespondWithError

RespondSpec == RespondInit /\ [][RespondNext]_vars

\* ------------------------------------------------ RespondToCommandMakeBSON

\* The values a Worker passes in args: two strings, a number, and a value
\* without an encoding.
ArgValues ==
    {Val("string", "ok"), Val("string", "n"), Val("int", "1"), Val("chan", "c")}

ArgLists == UNION {[1..n -> ArgValues] : n \in 0..MaxArgs}

ErrOddArgs == Err("magic bson has to be even # of args", "none")
ErrNonStringName == Err("got a non string for bson name", "none")

\* The type assertion accepting every value.
IsTextualAny(a) == TRUE
\* name, ok := args[idx].(string)
IsTextual(a) == a.kind = "string"

\* The element {"ok", 1} appended whether or not a pair is named "ok".
AddOkAlways(doc, gotOk) == Append(doc, DocElem("ok", Val("int", "1")))
\* if !gotOk { doc = append(doc, bson.DocElem{"ok", 1}) }
AddOk(doc, gotOk) ==
    IF gotOk THEN doc ELSE Append(doc, DocElem("ok", Val("int", "1")))

\* The loop over the pairs from position idx on (positions count from 1): it
\* stops at the first name that is not a string.
RECURSIVE MakeBSONDoc(_, _, _, _)
MakeBSONDoc(args, idx, doc, gotOk) ==
    IF idx > Len(args)
    THEN [err |-> NilErr, doc |-> doc, gotOk |-> gotOk]
    ELSE IF ~IsTextual(args[idx])
         THEN [err |-> ErrNonStringName, doc |-> doc, gotOk |-> gotOk]
         ELSE MakeBSONDoc(args, idx + 2,
                          Append(doc, DocElem(args[idx].v, args[idx + 1])),
                          gotOk \/ args[idx].v = "ok")

\* A return before RespondToCommand is called.
NotPassed(err) == [ret |-> err, frames |-> << >>, passed |-> << >>]

\* return s.RespondToCommand(clientMessage, doc2)
Passed(msg, doc2, sendResult) ==
    LET r == RespondToCommand(msg, doc2, sendResult)
    IN  [ret |-> r.ret, frames |-> r.frames, passed |-> <<doc2>>]

RespondToCommandMakeBSON(msg, args, sendResult) ==
    IF Len(args) % 2 = 1
    THEN NotPassed(ErrOddArgs)
    ELSE LET built == MakeBSONDoc(args, 1, << >>, FALSE)
         IN  IF built.err # NilErr
             THEN NotPassed(built.err)
             ELSE LET conv == SimpleBSONConvert(AddOk(built.doc, built.gotOk))
                  IN  IF conv.err # NilErr
                      THEN NotPassed(conv.err)
                      ELSE Passed(msg, conv.doc, sendResult)

\* A Worker calls s.RespondToCommandMakeBSON(clientMessage, args...).
CallRespondToCommandMakeBSON ==
    /\ Len(sent) < MaxFrames
    /\ \E msg \in Messages, args \in ArgLists, sendResult \in SendResults :
          LET r == RespondToCommandMakeBSON(msg, args, sendResult)
          IN  /\ last' = [fn |-> "RespondToCommandMakeBSON", msg |-> msg,
                          args |-> args, passed |-> r.passed,
                          sendResult |-> sendResult, ret |-> r.ret,
                          frames |-> r.frames]
              /\ sent' = sent \o r.frames
    /\ UNCHANGED serverVars

\* The first call of a session's Worker is RespondToCommandMakeBSON: what a
\* call does depends on its arguments only.
MakeBSONNext == last = NoCall /\ CallRespondToCommandMakeBSON

MakeBSONSpec == RespondInit /\ [][MakeBSONNext]_vars

\* ------------------------------------------------------------------ claims

Range(f) == {f[i] : i \in DOMAIN f}

StartupFailed == runResult \in StartupErrors

InAcceptLoop == runPc \in {"loop", "select"}

NoAcceptResult == sending = << >> /\ incoming = << >>

AfterSendInit == runPc \in {"deferDone", "loop", "select", "handle", "unwind", "returned"}

\* C1: when Run has returned with a startup error, the done signal has fired
\* (so that a Close called afterwards ends).
C1_DoneFiresOnStartupFailure ==
    (runPc = "returned" /\ StartupFailed) => doneCloses > 0

\* C5: one execution of Run sends exactly one value on the ready signal, the
\* send finds room in the buffer whoever is receiving, and after a startup
\* failure the value sent is the error Run returns.
C5_OneReadyValue ==
    /\ Len(initSent) <= 1
    /\ AfterSendInit => Len(initSent) = 1
    /\ runPc = "sendInit" => CanSend(initBuf, InitChanCap)
    /\ StartupFailed => initSent = <<runResult>>
    /\ (runPc = "returned" /\ initSent # <<NilErr>>) => StartupFailed

C5_Witness ==
    /\ runPc = "returned"
    /\ runResult = ErrListen
    /\ initSent = <<ErrListen>>
    /\ initBuf = <<ErrListen>>
    /\ received = << >>

\* C6: the address is set in every state in which nil has been sent on the
\* ready signal or an accept attempt has been started; it is written at most
\* once, and never when startup fails.
C6_AddrBeforeReady ==
    /\ NilErr \in Range(initSent) => Addr = "resolved"
    /\ (accepting > 0 \/ ~NoAcceptResult) => Addr = "resolved"
    /\ addrWrites <= 1
    /\ (StartupFailed \/ sendVal \in StartupErrors) => (addrWrites = 0 /\ Addr = "none")

C6_Witness ==
    /\ runPc = "deferDone"
    /\ initSent = <<NilErr>>
    /\ Addr = "resolved"
    /\ accepting = 0

\* C7 as claimed: no receive on InitChannel() yields nil unless the server has
\* started listening.
C7_NilOnlyIfListening ==
    \A i \in DOMAIN received : received[i].v = NilErr => lnState # "none"

\* C7 as amended: the first receive yields nil only if the server has started
\* listening; after a startup failure the first receive yields the startup
\* error, and a later receive yields nil only as the zero value of the channel
\* that Run closed on its return.
C7_FirstReceive ==
    /\ (received # << >> /\ received[1].v = NilErr) => lnState # "none"
    /\ (received # << >> /\ lnState = "none") =>
           (received[1].ok /\ received[1].v \in StartupErrors)
    /\ \A i \in DOMAIN received :
           (received[i].v = NilErr /\ lnState = "none") =>
               (i > 1 /\ ~received[i].ok /\ initClosed)

C7_Witness ==
    received = <<[v |-> ErrListen, ok |-> TRUE], [v |-> NilErr, ok |-> FALSE]>>

\* C8: once the done signal has fired the listener is closed, the done signal
\* fires at most once, and when Close waits while Run is in its accept loop
\* and no accept result comes while it is there, Run eventually has returned
\* nil, the listener is closed, the done signal has fired once and Close has
\* returned.
C8_CloseShutsDown ==
    /\ [](doneCloses > 0 => lnState = "closed")
    /\ [](doneCloses <= 1)
    /\ []((closePc = "waitDone" /\ InAcceptLoop /\ [](InAcceptLoop => NoAcceptResult))
            => <>(/\ runPc = "returned"
                  /\ runResult = NilErr
                  /\ lnState = "closed"
                  /\ doneCloses = 1
                  /\ closePc = "returned"))

C8_Witness ==
    /\ runPc = "returned"
    /\ runResult = NilErr
    /\ closePc = "returned"
    /\ doneCloses = 1
    /\ nextConn = 1
    /\ accepting = 1
    /\ NoAcceptResult

\* C9 as claimed: once the shutdown-request signal has fired, the wait of the
\* accept loop ends with Run returning nil, and no Session is started.
C9_KillWinsTheWait ==
    [][(killClosed /\ runPc = "select" /\ runPc' # runPc)
          => (runPc' = "unwind" /\ runResult' = NilErr /\ sess' = sess)]_vars

\* C9 as amended: once the shutdown-request signal has fired, a wait that
\* finds no accept result in the handoff ends with Run returning nil and no
\* Session started; a wait that finds one may take it instead.
C9_KillWinsTheEmptyWait ==
    [][(killClosed /\ runPc = "select" /\ incoming = << >> /\ runPc' # runPc)
          => (runPc' = "unwind" /\ runResult' = NilErr /\ sess' = sess)]_vars

C9_Witness ==
    /\ killClosed
    /\ runPc = "unwind"
    /\ runResult = NilErr
    /\ incoming = << >>
    /\ \A c \in ConnIds : sess[c].pc = "none"

\* C10: a session closes its connection at most once, has closed it exactly
\* once when Session.Run has ended, and does not close it while a Worker's
\* loop that was started has not returned.
C10_ConnClosedOnce ==
    \A c \in ConnIds :
        /\ sess[c].connCloses <= 1
        /\ sess[c].pc = "done" => sess[c].connCloses = 1
        /\ sess[c].connCloses > 0 =>
               (sess[c].pc \in {"unwind", "done"} /\ sess[c].loopReturns = sess[c].loopCalls)
        /\ sess[c].worker /\ sess[c].connCloses > 0 => sess[c].loopReturns = 1

C10_Witness ==
    \E c \in ConnIds :
        /\ sess[c].pc = "done"
        /\ sess[c].loopReturns = 1
        /\ sess[c].connCloses = 1

KnownOps ==
    {"OP_QUERY", "OP_GET_MORE", "OP_INSERT", "OP_UPDATE", "OP_DELETE", "OP_COMMAND", "OP_MSG"}

Responded == last.fn \in {"RespondToCommand", "RespondWithError"}

\* C2: for a QUERY or GET_MORE request both respond methods hand exactly one
\* frame to SendMessage, a reply with opcode REPLY, cursor id 0, number
\* returned 1 and flags 0, and return what SendMessage returned.
C2_QueryAndGetMoreReply ==
    (Responded /\ last.msg.OpCode \in {"OP_QUERY", "OP_GET_MORE"}) =>
        /\ Len(last.frames) = 1
        /\ last.frames[1].kind = "ReplyMessage"
        /\ last.frames[1].Header.OpCode = "OP_REPLY"
        /\ last.frames[1].Flags = 0
        /\ last.frames[1].CursorId = 0
        /\ last.frames[1].NumberReturned = 1
        /\ Len(last.frames[1].Docs) = 1
        /\ last.ret = last.sendResult

\* C3 as claimed: for a request of any other opcode both respond methods
\* return ErrUnknownOpcode and hand nothing to SendMessage.
C3_UnknownOpcode ==
    (Responded /\ last.msg.OpCode \notin KnownOps) =>
        (last.ret = ErrUnknownOpcode /\ last.frames = << >>)

\* C3 as amended: for a request of any other opcode both respond methods hand
\* nothing to SendMessage; RespondToCommand returns ErrUnknownOpcode, and so
\* does RespondWithError unless the error's document cannot be encoded, when
\* it returns the encoder's error.
C3_UnknownOpcodeOrEncodingError ==
    (Responded /\ last.msg.OpCode \notin KnownOps) =>
        /\ last.frames = << >>
        /\ last.ret = IF last.convErr # NilErr THEN last.convErr ELSE ErrUnknownOpcode
        /\ last.fn = "RespondToCommand" => last.ret = ErrUnknownOpcode

C3_Witness ==
    /\ last.fn = "RespondWithError"
    /\ last.msg.OpCode = "OP_KILL_CURSORS"
    /\ last.ret = ErrUnknownOpcode
    /\ sent = << >>

\* C4 as claimed: for an INSERT, UPDATE or DELETE request both respond methods
\* hand nothing to SendMessage and return nil.
C4_WritesAreSilent ==
    (Responded /\ last.msg.OpCode \in {"OP_INSERT", "OP_UPDATE", "OP_DELETE"}) =>
        (last.ret = NilErr /\ last.frames = << >>)

\* C4 as amended: for an INSERT, UPDATE or DELETE request both respond methods
\* hand nothing to SendMessage; RespondToCommand returns nil, and so does
\* RespondWithError unless the error's document cannot be encoded, when it
\* returns the encoder's error.
C4_WritesAreSilentOrEncodingError ==
    (Responded /\ last.msg.OpCode \in {"OP_INSERT", "OP_UPDATE", "OP_DELETE"}) =>
        /\ last.frames = << >>
        /\ last.ret = last.convErr
        /\ last.fn = "RespondToCommand" => last.ret = NilErr

C4_Witness ==
    /\ last.fn = "RespondWithError"
    /\ last.msg.OpCode = "OP_DELETE"
    /\ last.err.kind = "plain"
    /\ last.ret = NilErr
    /\ sent = << >>

\* C11: a session invokes the Worker factory at most once; the Worker it
\* returned is closed at most once, only after its loop has returned and
\* before the connection is closed, and has been closed once when the
\* connection is closed and when Session.Run has ended; after a failed factory
\* call no Worker's loop is run and no Worker is closed.
C11_WorkerClosedOnce ==
    \A c \in ConnIds :
        /\ sess[c].factoryCalls <= 1
        /\ sess[c].loopCalls <= 1
        /\ sess[c].workerCloses <= 1
        /\ sess[c].workerCloses > 0 =>
               (sess[c].worker /\ sess[c].loopCalls = 1 /\ sess[c].loopReturns = 1)
        /\ (sess[c].worker /\ sess[c].connCloses > 0) => sess[c].workerCloses = 1
        /\ (sess[c].worker /\ sess[c].pc = "done") => sess[c].workerCloses = 1
        /\ ~sess[c].worker => (sess[c].loopCalls = 0 /\ sess[c].workerCloses = 0)
        /\ (sess[c].factoryCalls = 1 /\ ~sess[c].worker) => sess[c].pc \in {"unwind", "done"}

C11_Witness ==
    \E c \in ConnIds :
        /\ sess[c].pc = "unwind"
        /\ sess[c].worker
        /\ sess[c].loopReturns = 1
        /\ sess[c].workerCloses = 1
        /\ sess[c].connCloses = 0

\* C12: on a server with TLS enabled every session is on a TLS connection; it
\* calls the Worker factory only after its handshake succeeded and it stored
\* the declared server name without one trailing "."; it stores the name at
\* most once; after a failed handshake it never calls the factory and
\* Session.Run is returning or has returned.
C12_HandshakeBeforeFactory ==
    \A c \in ConnIds :
        (config.UseSSL /\ sess[c].pc # "none") =>
            /\ sess[c].tls
            /\ sess[c].nameWrites <= 1
            /\ sess[c].pc \in {"create", "callLoop", "inLoop"} => sess[c].handshake = "ok"
            /\ sess[c].factoryCalls > 0 =>
                   /\ sess[c].handshake = "ok"
                   /\ sess[c].nameWrites = 1
                   /\ IF sess[c].declared # << >>
                         /\ sess[c].declared[Len(sess[c].declared)] = "."
                      THEN sess[c].SSLServerName \o <<".">> = sess[c].declared
                      ELSE sess[c].SSLServerName = sess[c].declared
            /\ sess[c].handshake = "failed" =>
                   /\ sess[c].factoryCalls = 0
                   /\ ~sess[c].worker
                   /\ sess[c].nameWrites = 0
                   /\ sess[c].pc \in {"unwind", "done"}

C12_Witness ==
    \E c \in ConnIds :
        /\ config.UseSSL
        /\ sess[c].declared = <<"h", ".">>
        /\ sess[c].SSLServerName = <<"h">>
        /\ sess[c].factoryCalls = 1

Odd(n) == n % 2 = 1

\* The positions of the names in an argument list.
NamePositions(args) == {i \in DOMAIN args : Odd(i)}

MadeBSON == last.fn = "RespondToCommandMakeBSON"

\* C13: a call of RespondToCommandMakeBSON with an odd number of arguments, or
\* with a value that is not a string at a name position, returns an error and
\* calls neither RespondToCommand nor SendMessage, whatever the opcode of the
\* request.
C13_BadPairsSendNothing ==
    (/\ MadeBSON
     /\ \/ Odd(Len(last.args))
        \/ \E i \in NamePositions(last.args) : last.args[i].kind # "string")
    => /\ last.ret # NilErr
       /\ last.frames = << >>
       /\ last.passed = << >>
       /\ sent = << >>

C13_Witness ==
    /\ MadeBSON
    /\ Len(last.args) = 4
    /\ last.args[1].kind = "string"
    /\ last.args[3].kind = "int"
    /\ last.msg.OpCode = "OP_COMMAND"
    /\ last.ret = ErrNonStringName
    /\ last.frames = << >>

\* An even number of arguments with a string at every name position.
GoodPairs(args) ==
    /\ ~Odd(Len(args))
    /\ \A i \in NamePositions(args) : args[i].kind = "string"

\* C14: for an even-length argument list whose names are all strings,
\* RespondToCommandMakeBSON passes at most one document to RespondToCommand,
\* and one when every value has an encoding; the document passed has the
\* given pairs in the given order, followed by the element {ok: 1} exactly
\* when no given pair is named "ok".
C14_PairsInOrderThenOk ==
    (MadeBSON /\ GoodPairs(last.args)) =>
        LET n == Len(last.args) \div 2
            hasOk == \E i \in 1..n : last.args[2 * i - 1].v = "ok"
        IN  /\ Len(last.passed) <= 1
            /\ (\A i \in 1..n : last.args[2 * i].kind # "chan") => Len(last.passed) = 1
            /\ last.passed # << >> =>
                   LET d == last.passed[1].BSON
                   IN  /\ Len(d) = IF hasOk THEN n ELSE n + 1
                       /\ \A i \in 1..n :
                              /\ d[i].Name = last.args[2 * i - 1].v
                              /\ d[i].Value = last.args[2 * i]
                       /\ ~hasOk => d[n + 1] = [Name |-> "ok", Value |-> Val("int", "1")]

C14_Witness ==
    /\ MadeBSON
    /\ Len(last.args) = 4
    /\ last.args[1].v = "n"
    /\ last.args[3].v = "ok"
    /\ last.args[4].v = "n"
    /\ Len(last.passed) = 1
    /\ Len(last.passed[1].BSON) = 2
    /\ Len(last.frames) = 1

\* The document a reply frame carries.
FrameDoc(f) ==
    CASE f.kind = "ReplyMessage" -> f.Docs[1]
      [] f.kind = "CommandReplyMessage" -> f.CommandReply
      [] f.kind = "MessageMessage" -> f.Sections[1].Bson

\* C15: the document in a reply written by RespondWithError is {ok: 1} for a
\* nil error, the elements of the error's own document for a MongoError, and
\* {ok: 0, errmsg: <the error's message>} for any other error.
C15_ErrorDocument ==
    (last.fn = "RespondWithError" /\ last.frames # << >>) =>
        LET d == FrameDoc(last.frames[1]).BSON
        IN  /\ last.err.kind = "nil" =>
                   d = <<[Name |-> "ok", Value |-> Val("int", "1")]>>
            /\ last.err.kind = "MongoError" => d = last.err.doc
            /\ last.err.kind = "plain" =>
                   d = <<[Name |-> "ok", Value |-> Val("int", "0")],
                         [Name |-> "errmsg", Value |-> Val("string", last.err.msg)]>>

C15_Witness ==
    /\ last.fn = "RespondWithError"
    /\ last.err.kind = "MongoError"
    /\ Len(last.frames) = 1
    /\ last.msg.OpCode = "OP_MSG"
    /\ FrameDoc(last.frames[1]).BSON = last.err.doc

\* The frame answering a COMMAND or MSG request, for a document.
C16_Frame(msg, doc) ==
    IF msg.OpCode = "OP_COMMAND"
    THEN [kind |-> "CommandReplyMessage",
          Header |-> [Size |-> 0, RequestID |-> 17, ResponseTo |-> msg.RequestID,
                      OpCode |-> "OP_COMMAND_REPLY"],
          CommandReply |-> doc, Metadata |-> [Size |-> 0, BSON |-> << >>],
          OutputDocs |-> << >>]
    ELSE [kind |-> "MessageMessage",
          Header |-> [Size |-> 0, RequestID |-> 17, ResponseTo |-> msg.RequestID,
                      OpCode |-> "OP_MSG"],
          FlagBits |-> 0,
          Sections |-> <<[kind |-> "BodySection", Bson |-> doc]>>]

\* C16 as claimed: for a COMMAND or MSG request every call of RespondToCommand
\* or RespondWithError hands exactly one frame to SendMessage, answering the
\* request's id: a COMMAND_REPLY with the document, an empty metadata document
\* and no output documents, or a MSG frame with flags 0 and one body section
\* holding the document.
C16_OneFramePerCall ==
    (Responded /\ last.msg.OpCode \in {"OP_COMMAND", "OP_MSG"}) =>
        last.frames = <<C16_Frame(last.msg, last.doc)>>

\* C16 as amended: the same, except that a call of RespondWithError whose
\* error document cannot be encoded hands nothing to SendMessage and returns
\* the encoder's error; every other call returns what SendMessage returned.
C16_OneFramePerEncodedCall ==
    (Responded /\ last.msg.OpCode \in {"OP_COMMAND", "OP_MSG"}) =>
        IF last.convErr = NilErr
        THEN /\ last.frames = <<C16_Frame(last.msg, last.doc)>>
             /\ last.ret = last.sendResult
        ELSE /\ last.fn = "RespondWithError"
             /\ last.frames = << >>
             /\ last.ret = last.convErr

C16_Witness ==
    /\ last.fn = "RespondWithError"
    /\ last.msg.OpCode = "OP_COMMAND"
    /\ last.err.kind = "plain"
    /\ Len(last.frames) = 1
    /\ last.frames[1].Header.ResponseTo = last.msg.RequestID
    /\ last.frames[1].Header.OpCode = "OP_COMMAND_REPLY"

\* A step of Server.Run, of Close or of an accept attempt.
ServerStep ==
    <<runPc, runDefers, killClosed, doneCloses, lnState, closePc,
      accepting, sending, incoming>>' #
    <<runPc, runDefers, killClosed, doneCloses, lnState, closePc,
      accepting, sending, incoming>>

\* C17: no step of Server.Run, of Close or of an accept attempt (the shutdown
\* request, Run returning and Close returning among them) changes anything of
\* a session that exists: it closes neither its connection nor its Worker;
\* a session's connection and Worker are closed only after its handshake
\* failed, its factory call failed or its Worker's loop returned.
C17_ShutdownLeavesSessions ==
    /\ [](\A c \in ConnIds :
             (sess[c].connCloses > 0 \/ sess[c].workerCloses > 0) =>
                 \/ sess[c].handshake = "failed"
                 \/ sess[c].factoryCalls = 1 /\ ~sess[c].worker
                 \/ sess[c].loopReturns = 1)
    /\ [][ServerStep =>
             \A c \in ConnIds : sess[c].pc # "none" => sess'[c] = sess[c]]_vars

\* Close has returned while a session's Worker is still in its loop.
C17_Witness ==
    /\ closePc = "returned"
    /\ runPc = "returned"
    /\ \E c \in ConnIds :
          /\ sess[c].pc = "inLoop"
          /\ sess[c].connCloses = 0
          /\ sess[c].workerCloses = 0

\* C18: when the loop received an accept attempt's error, the error Run
\* returns is not nil and wraps that accept error, not another error variable.
C18_WrapsAcceptError ==
    (runPc \in {"unwind", "returned"} /\ curEvent.err # NilErr) =>
        /\ runResult # NilErr
        /\ runResult.msg = "could not accept in proxy"
        /\ runResult.cause = curEvent.err.msg

\* ln.Accept() has returned the connection.
Accepted(c) == c < nextConn

\* The connection is in an accept result not yet received by the loop.
InHandoff(c) ==
    \E i \in DOMAIN (sending \o incoming) : (sending \o incoming)[i].conn = c

\* The loop has received the connection and not yet started its Session.
BeingHandled(c) == runPc = "handle" /\ curEvent.conn = c

\* C19 as claimed: no connection is handed to two Sessions, a Session that
\* has ended has closed its connection, and once Run has returned every
\* connection an accept attempt returned has got its Session.
C19_EveryConnGetsASession ==
    \A c \in ConnIds :
        /\ sess[c].sessions <= 1
        /\ sess[c].pc = "done" => sess[c].connCloses = 1
        /\ (runPc = "returned" /\ Accepted(c)) => sess[c].sessions = 1

\* C19 as amended: a connection an accept attempt returned is in the handoff,
\* or being handled by the loop, or has exactly one Session, which is the only
\* one to close it and has closed it once when it has ended; a connection
\* still in the handoff when Run is returning or has returned has no Session
\* and is not closed.
C19_ReceivedConnGetsOneSession ==
    \A c \in ConnIds :
        /\ sess[c].sessions <= 1
        /\ sess[c].sessions = 1 <=> (Accepted(c) /\ ~InHandoff(c) /\ ~BeingHandled(c))
        /\ sess[c].sessions = 1 => (sess[c].pc # "none" /\ sess[c].conn = c)
        /\ sess[c].connCloses > 0 => sess[c].sessions = 1
        /\ sess[c].pc = "done" => sess[c].connCloses = 1
        /\ (runPc \in {"unwind", "returned"} /\ InHandoff(c)) =>
               (sess[c].sessions = 0 /\ sess[c].connCloses = 0)

C19_Witness ==
    /\ runPc = "returned"
    /\ \E c \in ConnIds :
          /\ Accepted(c)
          /\ sess[c].sessions = 1
          /\ sess[c].pc = "done"
          /\ sess[c].connCloses = 1

\* C20: at most one accept attempt is live (in ln.Accept() or at its send), the
\* handoff holds at most one result and none while an attempt is live, so the
\* send of an attempt is never blocked, also after Run has returned; and an
\* attempt at its send always gets to complete it.
C20_AcceptSendNeverBlocks ==
    /\ [](/\ accepting + Len(sending) <= 1
          /\ Len(incoming) <= 1
          /\ accepting + Len(sending) + Len(incoming) <= 1
          /\ sending # << >> => CanSend(incoming, IncomingCap))
    /\ (sending # << >>) ~> (sending = << >>)

\* Run has returned and the attempt that was pending is at its send.
C20_Witness ==
    /\ runPc = "returned"
    /\ Len(sending) = 1
    /\ incoming = << >>
    /\ CanSend(incoming, IncomingCap)

=============================================================================
